---- MODULE Spec2Model ----
(***************************************************************************)
(* The cart context (CartProvider) of the storefront: the items list, the  *)
(* guest cart in localStorage, the remote cart_items / bookings /          *)
(* booking_items tables, the experience cache and the total price.         *)
(* Every await of the source is a step boundary: the action that executes  *)
(* a remote call also runs the continuation up to the next request, and a  *)
(* continuation that touches React state (setItems, toast) is its own      *)
(* action.                                                                 *)
(***************************************************************************)
EXTENDS Integers, Sequences, FiniteSets, TLC

\* ---------------------------------------------------------------- bounds
MaxQty == 3        \* addToCart is not called on a line that already has this quantity
MaxRuns == 1       \* cache-filling effect runs awaiting getExperienceById at once
MaxBookings == 1   \* bookings rows inserted in one behaviour
MaxRows == 3       \* rows of the cart_items table
MaxFaults == 1     \* remote calls that fail in one behaviour
MaxProviders == 3  \* provider applications submitted in one behaviour
MaxOverlap == 2    \* calls in flight at once where the client does not await them
MaxOverlapRuns == 2 \* effect runs awaiting getExperienceById at once where runs overlap
MaxWishRows == 3   \* rows of the wishlists table

\* ---------------------------------------------------------------- values
NoUser == "null"
UserId == "u1"
OtherUserId == "u2"
NoDate == "undefined"
SomeDate == "2025-06-01T00:00:00.000Z"
ExpIds == {"X", "Y"}
Dates == {NoDate, SomeDate}
\* the experiences table: id -> row (only id and price are read by the cart)
experiences == [e \in ExpIds |-> [id |-> e, price |-> IF e = "X" THEN 10 ELSE 25]]

NoRow == [id |-> 0, user_id |-> NoUser, experience_id |-> "", quantity |-> 0, date |-> NoDate]
NoResp == [error |-> FALSE, rows |-> <<>>]
EmptyCache == [e \in {} |-> experiences["X"]]

VARIABLES
    user,            \* useAuth().user: NoUser for a guest
    items,           \* useState<CartItem[]>
    experienceCache, \* useState<Record<string, Experience>>: a function on the cached ids
    totalPrice,      \* useState(0)
    localStorage,    \* the 'cart' key of localStorage: [has, cart] (cart is the JSON text)
    cartRows,        \* remote table cart_items, in table order
    bookings,        \* remote table bookings
    bookingItems,    \* remote table booking_items
    ops,             \* calls of the context's functions that have not been collected
    runs,            \* runs of fetchExperiencesForCart awaiting getExperienceById
    last,            \* the call that settled last, as it was when it settled
    faults,          \* remote calls that have failed so far
    scope,           \* fixed by the initial state: how many calls and effect runs the
                     \* client lets overlap, and whether the history of calls is kept
    isInWishlist,    \* useState(false) of the experience card
    wishlists,       \* remote table wishlists
    providers,       \* remote table providers
    experienceRows   \* rows that provider applications have inserted into experiences

vars == <<user, items, experienceCache, totalPrice, localStorage, cartRows,
          bookings, bookingItems, ops, runs, last, faults, scope, isInWishlist, wishlists,
          providers, experienceRows>>

\* ---------------------------------------------------------------- sequences
RECURSIVE SumSeq(_)
SumSeq(s) == IF s = <<>> THEN 0 ELSE Head(s) + SumSeq(Tail(s))

RemoveAt(s, i) == [j \in 1..(Len(s) - 1) |-> IF j < i THEN s[j] ELSE s[j + 1]]

\* Array.prototype.find: the index of the first line for x, 0 when there is none
FindLine(cartItems, x) ==
    IF \E i \in 1..Len(cartItems) : cartItems[i].experienceId = x
    THEN CHOOSE i \in 1..Len(cartItems) :
            /\ cartItems[i].experienceId = x
            /\ \A j \in 1..(i - 1) : cartItems[j].experienceId # x
    ELSE 0

\* ---------------------------------------------------------------- JSON
\* JSON.stringify drops a key whose value is undefined
JsonStringify(cartItems) ==
    [i \in 1..Len(cartItems) |->
        IF cartItems[i].date = NoDate
        THEN [experienceId |-> cartItems[i].experienceId, quantity |-> cartItems[i].quantity]
        ELSE cartItems[i]]

\* JSON.parse: a key that is absent reads as undefined
JsonParse(text) ==
    [i \in 1..Len(text) |->
        [experienceId |-> text[i].experienceId,
         quantity |-> text[i].quantity,
         date |-> IF "date" \in DOMAIN text[i] THEN text[i].date ELSE NoDate]]

\* const cart = localStorage.getItem('cart'); cart ? JSON.parse(cart) : []
StoredCart(ls) == IF ls.has THEN JsonParse(ls.cart) ELSE <<>>

\* ---------------------------------------------------------------- cart arithmetic
\* addToCart, guest branch: increment the existing line or push a new one
GuestCartAfterAdd(cartItems, x, d) ==
    LET i == FindLine(cartItems, x) IN
    IF i > 0
    THEN [cartItems EXCEPT ![i].quantity = @ + 1]
    ELSE Append(cartItems, [experienceId |-> x, quantity |-> 1, date |-> d])

\* prevItems.filter(item => item.experienceId !== experienceId)
RemoveLine(prevItems, x) == SelectSeq(prevItems, LAMBDA it : it.experienceId # x)

\* prevItems.map(item => item.experienceId === experienceId ? {...item, quantity} : item)
SetQuantity(prevItems, x, q) ==
    [i \in 1..Len(prevItems) |->
        IF prevItems[i].experienceId = x
        THEN [prevItems[i] EXCEPT !.quantity = q]
        ELSE prevItems[i]]

\* experience?.price || 0
PriceIn(cache, x) == IF x \in DOMAIN cache THEN cache[x].price ELSE 0

\* items.reduce((sum, item) => sum + (experience?.price || 0) * item.quantity, 0)
CartTotal(its, cache) ==
    SumSeq([i \in 1..Len(its) |-> PriceIn(cache, its[i].experienceId) * its[i].quantity])

\* a slip BookingItemsFor could make: the line's total stored as its price_at_booking
BookingItemsFor_LineTotal(bookingId, its, cache) ==
    [i \in 1..Len(its) |->
        [booking_id |-> bookingId,
         experience_id |-> its[i].experienceId,
         quantity |-> its[i].quantity,
         price_at_booking |-> PriceIn(cache, its[i].experienceId) * its[i].quantity]]

\* items.map(item => ({booking_id, experience_id, quantity, price_at_booking}))
BookingItemsFor(bookingId, its, cache) ==
    [i \in 1..Len(its) |->
        [booking_id |-> bookingId,
         experience_id |-> its[i].experienceId,
         quantity |-> its[i].quantity,
         price_at_booking |-> PriceIn(cache, its[i].experienceId)]]

\* ---------------------------------------------------------------- remote cart_items
\* .eq('user_id', u)
UserRows(rows, u) == SelectSeq(rows, LAMBDA r : r.user_id = u)

\* .eq('user_id', u).eq('experience_id', x)
LineRows(rows, u, x) == SelectSeq(rows, LAMBDA r : r.user_id = u /\ r.experience_id = x)

\* a slip RowsToItems could make: the guest cart of localStorage is kept in front of the rows
RowsToItems_Merged(rows) ==
    StoredCart(localStorage)
    \o [i \in 1..Len(rows) |->
           [experienceId |-> rows[i].experience_id,
            quantity |-> rows[i].quantity,
            date |-> rows[i].date]]

\* data.map(item => ({experienceId, quantity, date}))
RowsToItems(rows) ==
    [i \in 1..Len(rows) |->
        [experienceId |-> rows[i].experience_id,
         quantity |-> rows[i].quantity,
         date |-> rows[i].date]]

\* .delete().eq('user_id', u).eq('experience_id', x)
DeleteLineRows(rows, u, x) ==
    SelectSeq(rows, LAMBDA r : ~(r.user_id = u /\ r.experience_id = x))

\* .delete().eq('user_id', u)
DeleteUserRows(rows, u) == SelectSeq(rows, LAMBDA r : r.user_id # u)

\* .update({quantity}).eq('user_id', u).eq('experience_id', x)
UpdateLineRows(rows, u, x, q) ==
    [i \in 1..Len(rows) |->
        IF rows[i].user_id = u /\ rows[i].experience_id = x
        THEN [rows[i] EXCEPT !.quantity = q]
        ELSE rows[i]]

\* .update({quantity: existingItem.quantity + 1, date: date || existingItem.date}).eq('id', id)
UpdateRowById(rows, existingItem, d) ==
    [i \in 1..Len(rows) |->
        IF rows[i].id = existingItem.id
        THEN [rows[i] EXCEPT !.quantity = existingItem.quantity + 1,
                             !.date = IF d # NoDate THEN d ELSE existingItem.date]
        ELSE rows[i]]

\* the id the table gives a new row: one no row and no call in flight carries
FreshRowId(rows, calls) ==
    CHOOSE n \in 1..(Len(rows) + Len(calls) + 1) :
        /\ \A i \in 1..Len(rows) : rows[i].id # n
        /\ \A i \in 1..Len(calls) : calls[i].existingItem.id # n
        /\ \A m \in 1..(n - 1) :
              \/ \E i \in 1..Len(rows) : rows[i].id = m
              \/ \E i \in 1..Len(calls) : calls[i].existingItem.id = m

\* the migration makes cart_items.date NOT NULL: an insert that leaves it out is refused
InsertAccepted(d) == d # NoDate

\* ---------------------------------------------------------------- calls
\* a call record; `user`, `items` and `experienceCache` are what the function closed over
\* at the render it was called from, the history fields are kept for the properties
BlankCall(kind, u) ==
    [kind |-> kind, pc |-> "start", experienceId |-> "", quantity |-> 0, date |-> NoDate,
     user |-> u, items |-> <<>>, experienceCache |-> EmptyCache,
     rowsAtCall |-> <<>>,               \* history: the user's remote rows at the call
     existingItem |-> NoRow, resp |-> NoResp, bookingId |-> 0, total |-> 0,
     requests |-> <<>>,                 \* history: the remote requests it issued
     toasts |-> <<>>,                   \* history: the toasts it showed
     result |-> "pending"]

NewCall(kind, x, n, d) ==
    [BlankCall(kind, user) EXCEPT
        !.experienceId = x, !.quantity = n, !.date = d,
        !.items = items, !.experienceCache = experienceCache,
        !.rowsAtCall = IF scope.history THEN UserRows(cartRows, user) ELSE <<>>]

NoCall == BlankCall("none", NoUser)

Request(table, verb, ok) == [table |-> table, verb |-> verb, ok |-> ok]

Issue(o, table, verb, ok) ==
    IF scope.history THEN [o EXCEPT !.requests = Append(@, Request(table, verb, ok))] ELSE o

Toast(o, level) == IF scope.history THEN [o EXCEPT !.toasts = Append(@, level)] ELSE o

Settle(o, result) == [o EXCEPT !.pc = "done", !.result = result]

\* the call goes on as o, or has settled as o: the caller's await returns
Put(i, o) ==
    IF o.pc = "done"
    THEN /\ ops' = RemoveAt(ops, i)
         /\ last' = IF scope.history THEN o ELSE last
    ELSE /\ ops' = [ops EXCEPT ![i] = o]
         /\ last' = last

\* a new call, which may settle before its first await
Begin(o) ==
    IF o.pc = "done"
    THEN /\ ops' = ops
         /\ last' = IF scope.history THEN o ELSE last
    ELSE /\ ops' = Append(ops, o)
         /\ last' = last

\* ---------------------------------------------------------------- failures
\* a remote call succeeds, or fails while the behaviour may still hold a failure
Outcomes == IF faults < MaxFaults THEN BOOLEAN ELSE {TRUE}

Fault(ok) == faults' = IF ok THEN faults ELSE faults + 1

\* ---------------------------------------------------------------- the caller
\* The caller has fewer calls in flight than it lets overlap (one when it awaits each call
\* before it makes the next; effect runs go on meanwhile), and the session is followed
\* until its last booking: no call is made after it.
CallAllowed == Len(ops) < scope.calls /\ Len(bookings) < MaxBookings

\* ---------------------------------------------------------------- the cache effect
\* getExperienceById (lib/data): the experience, or null when it is missing or the read fails
GetExperienceById(id, ok) == IF ok /\ id \in DOMAIN experiences THEN <<experiences[id]>> ELSE <<>>

\* the for loop of fetchExperiencesForCart: the next line at or after `from` that is not cached
NextUncached(its, cache, from) ==
    IF \E i \in from..Len(its) : its[i].experienceId \notin DOMAIN cache
    THEN CHOOSE i \in from..Len(its) :
            /\ its[i].experienceId \notin DOMAIN cache
            /\ \A j \in from..(i - 1) : its[j].experienceId \in DOMAIN cache
    ELSE Len(its) + 1

\* the effect's run for a render: const newCache = {...experienceCache}; needsUpdate = false
EffectStart(its, cache) ==
    [items |-> its, newCache |-> cache, needsUpdate |-> FALSE,
     idx |-> NextUncached(its, cache, 1)]

\* await getExperienceById(...) resolved with `got`: cache it and go on with the loop
EffectResume(r, got) ==
    LET x == r.items[r.idx].experienceId
        cache1 == IF got = <<>> THEN r.newCache
                  ELSE [e \in DOMAIN r.newCache \cup {x} |->
                           IF e = x THEN got[1] ELSE r.newCache[e]]
    IN [r EXCEPT !.newCache = cache1,
                 !.needsUpdate = r.needsUpdate \/ got # <<>>,
                 !.idx = NextUncached(r.items, cache1, r.idx + 1)]

EffectFinished(r) == r.idx > Len(r.items)

\* the total the run hands to setTotalPrice
EffectTotal(r) == CartTotal(r.items, r.newCache)

\* setItems(new), the render it causes and the start of that render's effect run: a run
\* that finds every line cached reaches setTotalPrice without awaiting
SetItems(new) ==
    LET r == EffectStart(new, experienceCache) IN
    /\ items' = new
    /\ experienceCache' = experienceCache
    /\ IF EffectFinished(r)
       THEN /\ totalPrice' = EffectTotal(r)
            /\ runs' = runs
       ELSE /\ Len(runs) < scope.runs
            /\ runs' = Append(runs, r)
            /\ totalPrice' = totalPrice

\* a pending getExperienceById of run k resolves
EffectAwait(k) ==
    /\ k \in 1..Len(runs)
    /\ \E ok \in Outcomes :
        /\ Fault(ok)
        /\ LET r0 == runs[k]
               r == EffectResume(r0, GetExperienceById(r0.items[r0.idx].experienceId, ok))
           IN IF EffectFinished(r)
              THEN /\ experienceCache' = IF r.needsUpdate THEN r.newCache ELSE experienceCache
                   /\ totalPrice' = EffectTotal(r)
                   /\ runs' = RemoveAt(runs, k)
              ELSE /\ runs' = [runs EXCEPT ![k] = r]
                   /\ UNCHANGED <<experienceCache, totalPrice>>
    /\ UNCHANGED <<user, items, localStorage, cartRows, bookings, bookingItems, ops, last>>
    /\ UNCHANGED <<scope, isInWishlist, wishlists, providers, experienceRows>>

\* ---------------------------------------------------------------- initial state
\* After the provider has mounted: a guest on a fresh device, or a signed-in user whose
\* user effect has called fetchCartItems; the table may hold a cart from an earlier session.
Init ==
    /\ user \in {NoUser, UserId}
    /\ items = <<>>
    /\ experienceCache = EmptyCache
    /\ totalPrice = 0
    /\ localStorage = [has |-> FALSE, cart |-> <<>>]
    /\ \E earlier \in BOOLEAN :
        cartRows =
            <<[id |-> 1, user_id |-> OtherUserId, experience_id |-> "X",
               quantity |-> 1, date |-> SomeDate]>>
            \o (IF earlier /\ user = UserId
                THEN <<[id |-> 2, user_id |-> UserId, experience_id |-> "X",
                        quantity |-> 1, date |-> SomeDate]>>
                ELSE <<>>)
    /\ bookings = <<>>
    /\ bookingItems = <<>>
    /\ ops = IF user = NoUser THEN <<>>
             ELSE <<[BlankCall("fetchCartItems", user) EXCEPT !.pc = "fetch"]>>
    /\ runs = <<>>
    /\ last = NoCall
    /\ faults = 0
    /\ scope = [calls |-> 1, runs |-> MaxRuns, history |-> TRUE]
    /\ isInWishlist = FALSE
    /\ wishlists = <<>>
    /\ providers = <<>>
    /\ experienceRows = <<>>

\* ---------------------------------------------------------------- fetchCartItems
\* select('*').eq('user_id', user.id) is executed
FetchAfterSelect(o, ok, rows) ==
    [Issue(o, "cart_items", "select", ok) EXCEPT
        !.pc = "fetched", !.resp = [error |-> ~ok, rows |-> IF ok THEN rows ELSE <<>>]]

FetchSelect(i) ==
    /\ i \in 1..Len(ops)
    /\ ops[i].pc = "fetch"
    /\ \E ok \in Outcomes :
        /\ Fault(ok)
        /\ Put(i, FetchAfterSelect(ops[i], ok, UserRows(cartRows, ops[i].user)))
    /\ UNCHANGED <<user, items, experienceCache, totalPrice, localStorage, cartRows,
                   bookings, bookingItems, runs>>
    /\ UNCHANGED <<scope, isInWishlist, wishlists, providers, experienceRows>>

\* if (error) throw error; setItems(data.map(...))
FetchResume(i) ==
    /\ i \in 1..Len(ops)
    /\ ops[i].pc = "fetched"
    /\ IF ops[i].resp.error
       THEN /\ Put(i, Settle(ops[i], "throw"))
            /\ UNCHANGED <<items, experienceCache, totalPrice, runs>>
       ELSE /\ SetItems(RowsToItems(ops[i].resp.rows))
            /\ Put(i, Settle(ops[i], "ok"))
    /\ UNCHANGED <<user, faults, localStorage, cartRows, bookings, bookingItems>>
    /\ UNCHANGED <<scope, isInWishlist, wishlists, providers, experienceRows>>

\* ---------------------------------------------------------------- addToCart
\* select('id').eq('id', experienceId).single() is executed
AddAfterSelectExperience(o, ok) ==
    IF ok /\ o.experienceId \in DOMAIN experiences
    THEN [Issue(o, "experiences", "select", TRUE) EXCEPT !.pc = "selectCartItem"]
    ELSE Settle(Issue(o, "experiences", "select", FALSE), "throw")

\* the existing cart item: .single() gives the row when exactly one matches and
\* otherwise PGRST116 with no data, which the code lets pass
AddAfterSelectCartItem(o, ok, matches) ==
    IF ~ok
    THEN Settle(Issue(o, "cart_items", "select", FALSE), "throw")
    ELSE IF Len(matches) = 1
         THEN [Issue(o, "cart_items", "select", TRUE) EXCEPT
                  !.existingItem = matches[1], !.pc = "update"]
         ELSE [Issue(o, "cart_items", "select", TRUE) EXCEPT !.pc = "insert"]

\* after the update or the insert: throw on its error, else await fetchCartItems()
AddAfterWrite(o, verb, ok) ==
    IF ok
    THEN [Issue(o, "cart_items", verb, TRUE) EXCEPT !.pc = "fetch"]
    ELSE Settle(Issue(o, "cart_items", verb, FALSE), "throw")

AddToCart(x, d) ==
    LET o == NewCall("addToCart", x, 0, d) IN
    /\ CallAllowed
    /\ IF user = NoUser
       THEN LET cartItems == GuestCartAfterAdd(StoredCart(localStorage), x, d) IN
            /\ cartItems[FindLine(cartItems, x)].quantity <= MaxQty
            /\ localStorage' = [has |-> TRUE, cart |-> JsonStringify(cartItems)]
            /\ SetItems(cartItems)
            /\ Begin(Settle(o, "ok"))
       ELSE /\ Begin([o EXCEPT !.pc = "selectExperience"])
            /\ UNCHANGED <<items, experienceCache, totalPrice, localStorage, runs>>
    /\ UNCHANGED <<user, faults, cartRows, bookings, bookingItems>>
    /\ UNCHANGED <<scope, isInWishlist, wishlists, providers, experienceRows>>

AddSelectExperience(i) ==
    /\ i \in 1..Len(ops)
    /\ ops[i].pc = "selectExperience"
    /\ \E ok \in Outcomes : Fault(ok) /\ Put(i, AddAfterSelectExperience(ops[i], ok))
    /\ UNCHANGED <<user, items, experienceCache, totalPrice, localStorage, cartRows,
                   bookings, bookingItems, runs>>
    /\ UNCHANGED <<scope, isInWishlist, wishlists, providers, experienceRows>>

AddSelectCartItem(i) ==
    /\ i \in 1..Len(ops)
    /\ ops[i].pc = "selectCartItem"
    /\ \E ok \in Outcomes :
        /\ Fault(ok)
        /\ Put(i, AddAfterSelectCartItem(ops[i], ok,
                          LineRows(cartRows, ops[i].user, ops[i].experienceId)))
    /\ UNCHANGED <<user, items, experienceCache, totalPrice, localStorage, cartRows,
                   bookings, bookingItems, runs>>
    /\ UNCHANGED <<scope, isInWishlist, wishlists, providers, experienceRows>>

AddUpdate(i) ==
    /\ i \in 1..Len(ops)
    /\ ops[i].pc = "update"
    /\ ops[i].existingItem.quantity < MaxQty
    /\ \E ok \in Outcomes :
        /\ Fault(ok)
        /\ cartRows' = IF ok THEN UpdateRowById(cartRows, ops[i].existingItem, ops[i].date)
                       ELSE cartRows
        /\ Put(i, AddAfterWrite(ops[i], "update", ok))
    /\ UNCHANGED <<user, items, experienceCache, totalPrice, localStorage,
                   bookings, bookingItems, runs>>
    /\ UNCHANGED <<scope, isInWishlist, wishlists, providers, experienceRows>>

AddInsert(i) ==
    /\ i \in 1..Len(ops)
    /\ ops[i].pc = "insert"
    /\ \E ok \in Outcomes :
        /\ Fault(ok)
        /\ LET accepted == ok /\ InsertAccepted(ops[i].date) IN
           /\ accepted => Len(cartRows) < MaxRows
           /\ cartRows' =
                 IF accepted
                 THEN Append(cartRows,
                         [id |-> FreshRowId(cartRows, ops), user_id |-> ops[i].user,
                          experience_id |-> ops[i].experienceId, quantity |-> 1,
                          date |-> ops[i].date])
                 ELSE cartRows
           /\ Put(i, AddAfterWrite(ops[i], "insert", accepted))
    /\ UNCHANGED <<user, items, experienceCache, totalPrice, localStorage,
                   bookings, bookingItems, runs>>
    /\ UNCHANGED <<scope, isInWishlist, wishlists, providers, experienceRows>>

\* ---------------------------------------------------------------- removeFromCart
\* the synchronous part of removeFromCart(experienceId), also reached from updateQuantity
\* with quantity <= 0: a guest goes straight to setItems, a user awaits the delete
RemoveStart(o) ==
    IF o.user = NoUser
    THEN /\ SetItems(RemoveLine(items, o.experienceId))
         /\ Begin(Settle(Toast(o, "success"), "ok"))
    ELSE /\ Begin([o EXCEPT !.pc = "delete"])
         /\ UNCHANGED <<items, experienceCache, totalPrice, runs>>

RemoveFromCart(x) ==
    /\ CallAllowed
    /\ RemoveStart(NewCall("removeFromCart", x, 0, NoDate))
    /\ UNCHANGED <<user, faults, localStorage, cartRows, bookings, bookingItems>>
    /\ UNCHANGED <<scope, isInWishlist, wishlists, providers, experienceRows>>

\* a slip RemoveAfterDelete could make: the error of the response is not kept
RemoveAfterDelete_DropsError(o, ok) ==
    [Issue(o, "cart_items", "delete", ok) EXCEPT
        !.pc = "deleted", !.resp = [error |-> FALSE, rows |-> <<>>]]

\* .delete().eq('user_id', user.id).eq('experience_id', experienceId) is executed
RemoveAfterDelete(o, ok) ==
    [Issue(o, "cart_items", "delete", ok) EXCEPT
        !.pc = "deleted", !.resp = [error |-> ~ok, rows |-> <<>>]]

RemoveDelete(i) ==
    /\ i \in 1..Len(ops)
    /\ ops[i].pc = "delete"
    /\ \E ok \in Outcomes :
        /\ Fault(ok)
        /\ cartRows' = IF ok THEN DeleteLineRows(cartRows, ops[i].user, ops[i].experienceId)
                       ELSE cartRows
        /\ Put(i, RemoveAfterDelete(ops[i], ok))
    /\ UNCHANGED <<user, items, experienceCache, totalPrice, localStorage,
                   bookings, bookingItems, runs>>
    /\ UNCHANGED <<scope, isInWishlist, wishlists, providers, experienceRows>>

\* if (error) { toast.error(...); return } ; setItems(prev => prev.filter(...)); toast.success
RemoveResume(i) ==
    /\ i \in 1..Len(ops)
    /\ ops[i].pc = "deleted"
    /\ IF ops[i].resp.error
       THEN /\ Put(i, Settle(Toast(ops[i], "error"), "ok"))
            /\ UNCHANGED <<items, experienceCache, totalPrice, runs>>
       ELSE /\ SetItems(RemoveLine(items, ops[i].experienceId))
            /\ Put(i, Settle(Toast(ops[i], "success"), "ok"))
    /\ UNCHANGED <<user, faults, localStorage, cartRows, bookings, bookingItems>>
    /\ UNCHANGED <<scope, isInWishlist, wishlists, providers, experienceRows>>

\* ---------------------------------------------------------------- updateQuantity
\* a slip TakesRemovePath could make: quantity < 0, so that 0 is stored as a quantity
TakesRemovePath_Negative(n) == n < 0

\* another: the check is missing, so that any quantity is stored
TakesRemovePath_Never(n) == FALSE

\* if (quantity <= 0) { await removeFromCart(experienceId); return }
TakesRemovePath(n) == n <= 0

UpdateQuantity(x, n) ==
    LET o == NewCall("updateQuantity", x, n, NoDate) IN
    /\ CallAllowed
    /\ IF TakesRemovePath(n)
       THEN RemoveStart(o)
       ELSE IF user = NoUser
            THEN /\ SetItems(SetQuantity(items, x, n))
                 /\ Begin(Settle(o, "ok"))
            ELSE /\ Begin([o EXCEPT !.pc = "updateQuantity"])
                 /\ UNCHANGED <<items, experienceCache, totalPrice, runs>>
    /\ UNCHANGED <<user, faults, localStorage, cartRows, bookings, bookingItems>>
    /\ UNCHANGED <<scope, isInWishlist, wishlists, providers, experienceRows>>

\* .update({quantity, updated_at}).eq('user_id', ...).eq('experience_id', ...) is executed
UpdateAfterWrite(o, ok) ==
    [Issue(o, "cart_items", "update", ok) EXCEPT
        !.pc = "updatedQuantity", !.resp = [error |-> ~ok, rows |-> <<>>]]

UpdateWrite(i) ==
    /\ i \in 1..Len(ops)
    /\ ops[i].pc = "updateQuantity"
    /\ \E ok \in Outcomes :
        /\ Fault(ok)
        /\ cartRows' = IF ok
                       THEN UpdateLineRows(cartRows, ops[i].user, ops[i].experienceId,
                                           ops[i].quantity)
                       ELSE cartRows
        /\ Put(i, UpdateAfterWrite(ops[i], ok))
    /\ UNCHANGED <<user, items, experienceCache, totalPrice, localStorage,
                   bookings, bookingItems, runs>>
    /\ UNCHANGED <<scope, isInWishlist, wishlists, providers, experienceRows>>

UpdateResume(i) ==
    /\ i \in 1..Len(ops)
    /\ ops[i].pc = "updatedQuantity"
    /\ IF ops[i].resp.error
       THEN /\ Put(i, Settle(Toast(ops[i], "error"), "ok"))
            /\ UNCHANGED <<items, experienceCache, totalPrice, runs>>
       ELSE /\ SetItems(SetQuantity(items, ops[i].experienceId, ops[i].quantity))
            /\ Put(i, Settle(ops[i], "ok"))
    /\ UNCHANGED <<user, faults, localStorage, cartRows, bookings, bookingItems>>
    /\ UNCHANGED <<scope, isInWishlist, wishlists, providers, experienceRows>>

\* ---------------------------------------------------------------- clearCart
\* what the call resolves with once clearCart has returned: checkout goes on to return true
AfterClear(o) == IF o.kind = "checkout" THEN "true" ELSE "ok"

ClearCart ==
    LET o == NewCall("clearCart", "", 0, NoDate) IN
    /\ CallAllowed
    /\ IF user = NoUser
       THEN /\ SetItems(<<>>)
            /\ Begin(Settle(Toast(o, "success"), "ok"))
       ELSE /\ Begin([o EXCEPT !.pc = "clear"])
            /\ UNCHANGED <<items, experienceCache, totalPrice, runs>>
    /\ UNCHANGED <<user, faults, localStorage, cartRows, bookings, bookingItems>>
    /\ UNCHANGED <<scope, isInWishlist, wishlists, providers, experienceRows>>

\* .delete().eq('user_id', user.id) is executed
ClearAfterDelete(o, ok) ==
    [Issue(o, "cart_items", "delete", ok) EXCEPT
        !.pc = "cleared", !.resp = [error |-> ~ok, rows |-> <<>>]]

ClearDelete(i) ==
    /\ i \in 1..Len(ops)
    /\ ops[i].pc = "clear"
    /\ \E ok \in Outcomes :
        /\ Fault(ok)
        /\ cartRows' = IF ok THEN DeleteUserRows(cartRows, ops[i].user) ELSE cartRows
        /\ Put(i, ClearAfterDelete(ops[i], ok))
    /\ UNCHANGED <<user, items, experienceCache, totalPrice, localStorage,
                   bookings, bookingItems, runs>>
    /\ UNCHANGED <<scope, isInWishlist, wishlists, providers, experienceRows>>

\* if (error) { toast.error(...); return } ; setItems([]); toast.success
ClearResume(i) ==
    /\ i \in 1..Len(ops)
    /\ ops[i].pc = "cleared"
    /\ IF ops[i].resp.error
       THEN /\ Put(i, Settle(Toast(ops[i], "error"), AfterClear(ops[i])))
            /\ UNCHANGED <<items, experienceCache, totalPrice, runs>>
       ELSE /\ SetItems(<<>>)
            /\ Put(i, Settle(Toast(ops[i], "success"), AfterClear(ops[i])))
    /\ UNCHANGED <<user, faults, localStorage, cartRows, bookings, bookingItems>>
    /\ UNCHANGED <<scope, isInWishlist, wishlists, providers, experienceRows>>

\* ---------------------------------------------------------------- checkout
\* a slip CheckoutStart could make: no check of items.length
CheckoutStart_NoEmptyCheck(o) ==
    IF o.user = NoUser
    THEN Settle(Toast(o, "error"), "false")
    ELSE [o EXCEPT !.total = CartTotal(o.items, o.experienceCache),
                   !.pc = "insertBooking"]

\* the guards and the total: everything before the first await
CheckoutStart(o) ==
    IF o.user = NoUser
    THEN Settle(Toast(o, "error"), "false")
    ELSE IF Len(o.items) = 0
         THEN Settle(Toast(o, "error"), "false")
         ELSE [o EXCEPT !.total = CartTotal(o.items, o.experienceCache),
                        !.pc = "insertBooking"]

Checkout ==
    /\ CallAllowed
    /\ Begin(CheckoutStart(NewCall("checkout", "", 0, NoDate)))
    /\ UNCHANGED <<user, faults, items, experienceCache, totalPrice, localStorage, cartRows,
                   bookings, bookingItems, runs>>
    /\ UNCHANGED <<scope, isInWishlist, wishlists, providers, experienceRows>>

\* the row the bookings insert stores
BookingRow(id, o) ==
    [id |-> id, user_id |-> o.user, total_amount |-> o.total, status |-> "confirmed"]

\* a slip CheckoutAfterBooking could make: the failure is surfaced as the other calls do
CheckoutAfterBooking_Toasts(o, ok, id) ==
    IF ok
    THEN [Issue(o, "bookings", "insert", TRUE) EXCEPT !.bookingId = id, !.pc = "insertItems"]
    ELSE Settle(Toast(Issue(o, "bookings", "insert", FALSE), "error"), "false")

\* if (bookingError || !bookingData) return false
CheckoutAfterBooking(o, ok, id) ==
    IF ok
    THEN [Issue(o, "bookings", "insert", TRUE) EXCEPT !.bookingId = id, !.pc = "insertItems"]
    ELSE Settle(Issue(o, "bookings", "insert", FALSE), "false")

CheckoutInsertBooking(i) ==
    /\ i \in 1..Len(ops)
    /\ ops[i].pc = "insertBooking"
    /\ \E ok \in Outcomes :
        /\ Fault(ok)
        /\ LET id == Len(bookings) + 1 IN
           /\ ok => Len(bookings) < MaxBookings
           /\ bookings' = IF ok THEN Append(bookings, BookingRow(id, ops[i])) ELSE bookings
           /\ Put(i, CheckoutAfterBooking(ops[i], ok, id))
    /\ UNCHANGED <<user, items, experienceCache, totalPrice, localStorage, cartRows,
                   bookingItems, runs>>
    /\ UNCHANGED <<scope, isInWishlist, wishlists, providers, experienceRows>>

\* a slip CheckoutAfterItems could make: itemsError is not looked at
CheckoutAfterItems_IgnoresError(o, ok) ==
    [Issue(o, "booking_items", "insert", ok) EXCEPT !.pc = "clear"]

\* another: the failure path returns true
CheckoutAfterItems_ReturnsTrue(o, ok) ==
    IF ok
    THEN [Issue(o, "booking_items", "insert", TRUE) EXCEPT !.pc = "clear"]
    ELSE Settle(Issue(o, "booking_items", "insert", FALSE), "true")

\* if (itemsError) return false; await clearCart()
CheckoutAfterItems(o, ok) ==
    IF ok
    THEN [Issue(o, "booking_items", "insert", TRUE) EXCEPT !.pc = "clear"]
    ELSE Settle(Issue(o, "booking_items", "insert", FALSE), "false")

CheckoutInsertItems(i) ==
    /\ i \in 1..Len(ops)
    /\ ops[i].pc = "insertItems"
    /\ \E ok \in Outcomes :
        /\ Fault(ok)
        /\ bookingItems' =
              IF ok
              THEN bookingItems
                   \o BookingItemsFor(ops[i].bookingId, ops[i].items, ops[i].experienceCache)
              ELSE bookingItems
        /\ Put(i, CheckoutAfterItems(ops[i], ok))
    /\ UNCHANGED <<user, items, experienceCache, totalPrice, localStorage, cartRows,
                   bookings, runs>>
    /\ UNCHANGED <<scope, isInWishlist, wishlists, providers, experienceRows>>

\* ---------------------------------------------------------------- the calls made
\* addToCart's arguments: X with and without a date, Y with one
AddInputs == {<<"X", NoDate>>, <<"X", SomeDate>>, <<"Y", SomeDate>>}

\* updateQuantity's quantity argument
Quantities == {0 - 1, 0, 1, 2}

\* a step of the provider: a call of one of the context's functions, a step of a call in
\* flight, or a step of an effect run
Next ==
    \/ \E a \in AddInputs : AddToCart(a[1], a[2])
    \/ \E x \in ExpIds : RemoveFromCart(x)
    \/ \E x \in ExpIds, n \in Quantities : UpdateQuantity(x, n)
    \/ ClearCart
    \/ Checkout
    \/ \E i \in 1..Len(ops) : FetchSelect(i)
    \/ \E i \in 1..Len(ops) : FetchResume(i)
    \/ \E i \in 1..Len(ops) : AddSelectExperience(i)
    \/ \E i \in 1..Len(ops) : AddSelectCartItem(i)
    \/ \E i \in 1..Len(ops) : AddUpdate(i)
    \/ \E i \in 1..Len(ops) : AddInsert(i)
    \/ \E i \in 1..Len(ops) : RemoveDelete(i)
    \/ \E i \in 1..Len(ops) : RemoveResume(i)
    \/ \E i \in 1..Len(ops) : UpdateWrite(i)
    \/ \E i \in 1..Len(ops) : UpdateResume(i)
    \/ \E i \in 1..Len(ops) : ClearDelete(i)
    \/ \E i \in 1..Len(ops) : ClearResume(i)
    \/ \E i \in 1..Len(ops) : CheckoutInsertBooking(i)
    \/ \E i \in 1..Len(ops) : CheckoutInsertItems(i)
    \/ \E k \in 1..Len(runs) : EffectAwait(k)

Spec == Init /\ [][Next]_vars

\* ---------------------------------------------------------------- the user effect
\* useEffect(..., [user]) after a login: fetchCartItems() is called and not awaited
Login ==
    /\ user = NoUser
    /\ ops = <<>>
    /\ user' = UserId
    /\ ops' = Append(ops, [BlankCall("fetchCartItems", UserId) EXCEPT !.pc = "fetch"])
    /\ UNCHANGED <<items, experienceCache, totalPrice, localStorage, cartRows, bookings,
                   bookingItems, runs, last, faults, scope, isInWishlist, wishlists, providers, experienceRows>>

\* the guest branch: const cart = localStorage.getItem('cart'); if (cart) setItems(JSON.parse(cart))
GuestCartShown(ls, its) == IF ls.has THEN StoredCart(ls) ELSE its

\* useEffect(..., [user]) after a logout; calls of the signed-in user go on in flight
Logout ==
    /\ user # NoUser
    /\ user' = NoUser
    /\ IF localStorage.has
       THEN SetItems(GuestCartShown(localStorage, items))
       ELSE /\ items' = GuestCartShown(localStorage, items)
            /\ UNCHANGED <<experienceCache, totalPrice, runs>>
    /\ UNCHANGED <<localStorage, cartRows, bookings, bookingItems, ops, last, faults,
                   scope, isInWishlist, wishlists, providers, experienceRows>>

\* a guest on a fresh device who may have a cart in the table from an earlier session
InitAuth ==
    /\ user = NoUser
    /\ items = <<>>
    /\ experienceCache = EmptyCache
    /\ totalPrice = 0
    /\ localStorage = [has |-> FALSE, cart |-> <<>>]
    /\ \E earlier \in BOOLEAN :
        cartRows =
            <<[id |-> 1, user_id |-> OtherUserId, experience_id |-> "X",
               quantity |-> 1, date |-> SomeDate]>>
            \o (IF earlier
                THEN <<[id |-> 2, user_id |-> UserId, experience_id |-> "X",
                        quantity |-> 1, date |-> SomeDate]>>
                ELSE <<>>)
    /\ bookings = <<>>
    /\ bookingItems = <<>>
    /\ ops = <<>>
    /\ runs = <<>>
    /\ last = NoCall
    /\ faults = 0
    /\ scope = [calls |-> 1, runs |-> MaxRuns, history |-> TRUE]
    /\ isInWishlist = FALSE
    /\ wishlists = <<>>
    /\ providers = <<>>
    /\ experienceRows = <<>>

\* addToCart's arguments when a date is chosen
DatedAdds == {a \in AddInputs : a[2] # NoDate}

\* logins and logouts around addToCart
NextAuth ==
    \/ Login
    \/ Logout
    \/ \E a \in DatedAdds : AddToCart(a[1], a[2])
    \/ \E i \in 1..Len(ops) : FetchSelect(i)
    \/ \E i \in 1..Len(ops) : FetchResume(i)
    \/ \E i \in 1..Len(ops) : AddSelectExperience(i)
    \/ \E i \in 1..Len(ops) : AddSelectCartItem(i)
    \/ \E i \in 1..Len(ops) : AddUpdate(i)
    \/ \E i \in 1..Len(ops) : AddInsert(i)
    \/ \E k \in 1..Len(runs) : EffectAwait(k)

SpecAuth == InitAuth /\ [][NextAuth]_vars

\* ---------------------------------------------------------------- overlapping calls
\* a signed-in user whose client does not await a call before it makes the next (two
\* clicks, two components); the backend answers every request, and the history of the
\* calls is not kept: the properties of this scope read the cart only
InitOverlap ==
    /\ user = UserId
    /\ items = <<>>
    /\ experienceCache = EmptyCache
    /\ totalPrice = 0
    /\ localStorage = [has |-> FALSE, cart |-> <<>>]
    /\ \E earlier \in BOOLEAN :
        cartRows =
            <<[id |-> 1, user_id |-> OtherUserId, experience_id |-> "X",
               quantity |-> 1, date |-> SomeDate]>>
            \o (IF earlier
                THEN <<[id |-> 2, user_id |-> UserId, experience_id |-> "X",
                        quantity |-> 1, date |-> SomeDate]>>
                ELSE <<>>)
    /\ bookings = <<>>
    /\ bookingItems = <<>>
    /\ ops = <<[BlankCall("fetchCartItems", user) EXCEPT !.pc = "fetch"]>>
    /\ runs = <<>>
    /\ last = NoCall
    /\ faults = MaxFaults
    /\ scope = [calls |-> MaxOverlap, runs |-> MaxRuns, history |-> FALSE]
    /\ isInWishlist = FALSE
    /\ wishlists = <<>>
    /\ providers = <<>>
    /\ experienceRows = <<>>

\* the overlapping calls are about one experience
OverlapIds == {"X"}

NextOverlap ==
    \/ \E x \in OverlapIds : AddToCart(x, SomeDate)
    \/ \E x \in OverlapIds : RemoveFromCart(x)
    \/ \E x \in OverlapIds, n \in Quantities : UpdateQuantity(x, n)
    \/ ClearCart
    \/ \E i \in 1..Len(ops) : FetchSelect(i)
    \/ \E i \in 1..Len(ops) : FetchResume(i)
    \/ \E i \in 1..Len(ops) : AddSelectExperience(i)
    \/ \E i \in 1..Len(ops) : AddSelectCartItem(i)
    \/ \E i \in 1..Len(ops) : AddUpdate(i)
    \/ \E i \in 1..Len(ops) : AddInsert(i)
    \/ \E i \in 1..Len(ops) : RemoveDelete(i)
    \/ \E i \in 1..Len(ops) : RemoveResume(i)
    \/ \E i \in 1..Len(ops) : UpdateWrite(i)
    \/ \E i \in 1..Len(ops) : UpdateResume(i)
    \/ \E i \in 1..Len(ops) : ClearDelete(i)
    \/ \E i \in 1..Len(ops) : ClearResume(i)
    \/ \E k \in 1..Len(runs) : EffectAwait(k)

SpecOverlap == InitOverlap /\ [][NextOverlap]_vars

\* ---------------------------------------------------------------- overlapping effect runs
\* a guest who changes the cart while earlier runs of the cache effect are still awaiting
InitEffect ==
    /\ user = NoUser
    /\ items = <<>>
    /\ experienceCache = EmptyCache
    /\ totalPrice = 0
    /\ localStorage = [has |-> FALSE, cart |-> <<>>]
    /\ cartRows = <<>>
    /\ bookings = <<>>
    /\ bookingItems = <<>>
    /\ ops = <<>>
    /\ runs = <<>>
    /\ last = NoCall
    /\ faults = 0
    /\ scope = [calls |-> 1, runs |-> MaxOverlapRuns, history |-> FALSE]
    /\ isInWishlist = FALSE
    /\ wishlists = <<>>
    /\ providers = <<>>
    /\ experienceRows = <<>>

NextEffect ==
    \/ \E a \in AddInputs : AddToCart(a[1], a[2])
    \/ \E x \in ExpIds : RemoveFromCart(x)
    \/ \E x \in ExpIds, n \in Quantities : UpdateQuantity(x, n)
    \/ ClearCart
    \/ \E k \in 1..Len(runs) : EffectAwait(k)

SpecEffect == InitEffect /\ [][NextEffect]_vars

\* ---------------------------------------------------------------- the experience card
\* the experience the card shows
CardExperience == "X"

\* .eq('user_id', user.id).eq('experience_id', experience.id)
WishRows(rows, u, x) == SelectSeq(rows, LAMBDA r : r.user_id = u /\ r.experience_id = x)

\* .select('id')...single(): the row when exactly one matches, no data otherwise
SingleData(ok, matches) == IF ok /\ Len(matches) = 1 THEN matches ELSE <<>>

\* setIsInWishlist(!!data)
WishlistFlag(data) == data # <<>>

\* checkWishlist of the effect on [user, experience.id], up to its await
CheckWishlist(u) == [BlankCall("checkWishlist", u) EXCEPT !.pc = "check"]

\* the effect after a login: checkWishlist() awaits its select (followed while fewer
\* than MaxOverlap calls of the card are in flight)
CardLogin ==
    /\ user = NoUser
    /\ Len(ops) < MaxOverlap
    /\ user' = UserId
    /\ ops' = Append(ops, CheckWishlist(UserId))
    /\ UNCHANGED <<items, experienceCache, totalPrice, localStorage, cartRows, bookings,
                   bookingItems, runs, last, faults, scope, isInWishlist, wishlists,
                   providers, experienceRows>>

\* the effect after a logout: if (!user) { setIsInWishlist(false); return }
CardLogout ==
    /\ user # NoUser
    /\ user' = NoUser
    /\ isInWishlist' = FALSE
    /\ UNCHANGED <<items, experienceCache, totalPrice, localStorage, cartRows, bookings,
                   bookingItems, ops, runs, last, faults, scope, wishlists,
                   providers, experienceRows>>

\* supabase.from('wishlists').select('id').eq(...).eq(...).single() is executed
CheckSelect(i) ==
    /\ i \in 1..Len(ops)
    /\ ops[i].pc = "check"
    /\ \E ok \in Outcomes :
        /\ Fault(ok)
        /\ Put(i, [Issue(ops[i], "wishlists", "select", ok) EXCEPT
                      !.pc = "checked",
                      !.resp = [error |-> ~ok,
                                rows |-> SingleData(ok, WishRows(wishlists, ops[i].user,
                                                                 CardExperience))]])
    /\ UNCHANGED <<user, items, experienceCache, totalPrice, localStorage, cartRows,
                   bookings, bookingItems, runs, scope, isInWishlist, wishlists,
                   providers, experienceRows>>

\* setIsInWishlist(!!data)
CheckResume(i) ==
    /\ i \in 1..Len(ops)
    /\ ops[i].pc = "checked"
    /\ isInWishlist' = WishlistFlag(ops[i].resp.rows)
    /\ Put(i, Settle(ops[i], "ok"))
    /\ UNCHANGED <<user, items, experienceCache, totalPrice, localStorage, cartRows,
                   bookings, bookingItems, runs, faults, scope, wishlists,
                   providers, experienceRows>>

\* isProcessing of useExperienceInteractions: a toggle is in flight (the button is disabled)
IsProcessing == \E i \in 1..Len(ops) : ops[i].kind = "handleToggleWishlist"

\* handleToggleWishlist: the guard, then toggleWishlist(experience.id, isInWishlist, ...,
\* () => setIsInWishlist(!isInWishlist)) with the isInWishlist of the render clicked
HandleToggleWishlist ==
    LET o == BlankCall("handleToggleWishlist", user) @@ [isInWishlist |-> isInWishlist] IN
    /\ ~IsProcessing
    /\ IF user = NoUser
       THEN Begin(Settle(Toast(o, "error"), "ok"))
       ELSE Begin([o EXCEPT !.pc = "toggle"])
    /\ UNCHANGED <<user, items, experienceCache, totalPrice, localStorage, cartRows,
                   bookings, bookingItems, runs, faults, scope, isInWishlist, wishlists,
                   providers, experienceRows>>

\* toggleWishlist (hooks/useExperienceInteractions): deletes the row when the flag it was
\* given is set, inserts one otherwise
ToggleWishlistRows(rows, u, x, flag) ==
    IF flag
    THEN SelectSeq(rows, LAMBDA r : ~(r.user_id = u /\ r.experience_id = x))
    ELSE Append(rows, [user_id |-> u, experience_id |-> x])

ToggleWrite(i) ==
    /\ i \in 1..Len(ops)
    /\ ops[i].pc = "toggle"
    /\ \E ok \in Outcomes :
        /\ Fault(ok)
        /\ LET verb == IF ops[i].isInWishlist THEN "delete" ELSE "insert" IN
           /\ (ok /\ verb = "insert") => Len(wishlists) < MaxWishRows
           /\ wishlists' = IF ok
                            THEN ToggleWishlistRows(wishlists, ops[i].user, CardExperience,
                                                    ops[i].isInWishlist)
                            ELSE wishlists
           /\ Put(i, [Issue(ops[i], "wishlists", verb, ok) EXCEPT
                         !.pc = "toggled", !.resp = [error |-> ~ok, rows |-> <<>>]])
    /\ UNCHANGED <<user, items, experienceCache, totalPrice, localStorage, cartRows,
                   bookings, bookingItems, runs, scope, isInWishlist,
                   providers, experienceRows>>

\* after the remote call has resolved the callback runs: setIsInWishlist(!isInWishlist);
\* a failed call is surfaced as a toast and the flag is left alone
ToggleResume(i) ==
    /\ i \in 1..Len(ops)
    /\ ops[i].pc = "toggled"
    /\ IF ops[i].resp.error
       THEN /\ isInWishlist' = isInWishlist
            /\ Put(i, Settle(Toast(ops[i], "error"), "ok"))
       ELSE /\ isInWishlist' = ~ops[i].isInWishlist
            /\ Put(i, Settle(ops[i], "ok"))
    /\ UNCHANGED <<user, items, experienceCache, totalPrice, localStorage, cartRows,
                   bookings, bookingItems, runs, faults, scope, wishlists,
                   providers, experienceRows>>

\* the card has mounted: a guest, or a signed-in user whose checkWishlist awaits its
\* select and who may have saved the experience in an earlier session
InitCard ==
    /\ user \in {NoUser, UserId}
    /\ items = <<>>
    /\ experienceCache = EmptyCache
    /\ totalPrice = 0
    /\ localStorage = [has |-> FALSE, cart |-> <<>>]
    /\ cartRows = <<>>
    /\ bookings = <<>>
    /\ bookingItems = <<>>
    /\ ops = IF user = NoUser THEN <<>> ELSE <<CheckWishlist(user)>>
    /\ runs = <<>>
    /\ last = NoCall
    /\ faults = 0
    /\ scope = [calls |-> 1, runs |-> MaxRuns, history |-> TRUE]
    /\ isInWishlist = FALSE
    /\ \E saved \in BOOLEAN :
        wishlists =
            <<[user_id |-> OtherUserId, experience_id |-> CardExperience]>>
            \o (IF saved
                THEN <<[user_id |-> UserId, experience_id |-> CardExperience]>>
                ELSE <<>>)
    /\ providers = <<>>
    /\ experienceRows = <<>>

NextCard ==
    \/ CardLogin
    \/ CardLogout
    \/ HandleToggleWishlist
    \/ \E i \in 1..Len(ops) : CheckSelect(i)
    \/ \E i \in 1..Len(ops) : CheckResume(i)
    \/ \E i \in 1..Len(ops) : ToggleWrite(i)
    \/ \E i \in 1..Len(ops) : ToggleResume(i)

SpecCard == InitCard /\ [][NextCard]_vars

\* ---------------------------------------------------------------- provider applications
\* the form: a company, and the details of a first experience or none
NoDetails == [name |-> "", price |-> ""]
Companies == {"Acme", "Bolt"}
DetailsGiven == {NoDetails, [name |-> "Tour", price |-> "40"], [name |-> "Walk", price |-> "free"]}
FormData == [companyName : Companies, experienceDetails : DetailsGiven]

NoProvider == [id |-> 0, company_name |-> "", status |-> "", experiences |-> 0, rating |-> 0]

\* parseFloat: the number a numeric string denotes, NaN for any other
ParseFloat(text) == IF text = "40" THEN 40 ELSE "NaN"

\* the row the providers insert stores, as .select().single() returns it
ProviderRow(id, formData) ==
    [id |-> id, company_name |-> formData.companyName, status |-> "pending",
     experiences |-> 0, rating |-> 0]

\* the row the experiences insert stores
ExperienceRow(providerData, details) ==
    [provider_id |-> providerData.id, title |-> details.name,
     price |-> ParseFloat(details.price), status |-> "pending"]

\* catch (error) { toast.error(...); return { success: false, error } }
SubmitCaught(o) == Settle(Toast(o, "error"), "success:false")

\* if (providerError) throw providerError; if (formData.experienceDetails) ... else return
SubmitAfterProvider(o, ok, row) ==
    IF ~ok
    THEN SubmitCaught(Issue(o, "providers", "insert", FALSE))
    ELSE IF o.formData.experienceDetails # NoDetails
         THEN [Issue(o, "providers", "insert", TRUE) EXCEPT
                  !.providerData = row, !.pc = "insertExperience"]
         ELSE Settle([Issue(o, "providers", "insert", TRUE) EXCEPT !.providerData = row],
                     "success:true")

\* a slip SubmitAfterExperience could make: experienceError is not looked at
SubmitAfterExperience_IgnoresError(o, ok) ==
    Settle(Issue(o, "experiences", "insert", ok), "success:true")

\* if (experienceError) throw experienceError; return { success: true, data: providerData }
SubmitAfterExperience(o, ok) ==
    IF ok
    THEN Settle(Issue(o, "experiences", "insert", TRUE), "success:true")
    ELSE SubmitCaught(Issue(o, "experiences", "insert", FALSE))

SubmitProviderApplication(formData) ==
    /\ Len(ops) < scope.calls
    /\ Len(providers) < MaxProviders
    /\ Begin([BlankCall("submitProviderApplication", NoUser)
                  @@ [formData |-> formData, providerData |-> NoProvider]
               EXCEPT !.pc = "insertProvider"])
    /\ UNCHANGED <<user, items, experienceCache, totalPrice, localStorage, cartRows,
                   bookings, bookingItems, runs, faults, scope, isInWishlist, wishlists, providers, experienceRows>>

\* supabase.from('providers').insert({...}).select().single() is executed
SubmitInsertProvider(i) ==
    /\ i \in 1..Len(ops)
    /\ ops[i].pc = "insertProvider"
    /\ \E ok \in Outcomes :
        /\ Fault(ok)
        /\ LET row == ProviderRow(Len(providers) + 1, ops[i].formData) IN
           /\ providers' = IF ok THEN Append(providers, row) ELSE providers
           /\ Put(i, SubmitAfterProvider(ops[i], ok, row))
    /\ UNCHANGED <<user, items, experienceCache, totalPrice, localStorage, cartRows,
                   bookings, bookingItems, runs, scope, isInWishlist, wishlists, experienceRows>>

\* supabase.from('experiences').insert({provider_id: providerData.id, ...}) is executed
SubmitInsertExperience(i) ==
    /\ i \in 1..Len(ops)
    /\ ops[i].pc = "insertExperience"
    /\ \E ok \in Outcomes :
        /\ Fault(ok)
        /\ experienceRows' =
              IF ok
              THEN Append(experienceRows,
                          ExperienceRow(ops[i].providerData, ops[i].formData.experienceDetails))
              ELSE experienceRows
        /\ Put(i, SubmitAfterExperience(ops[i], ok))
    /\ UNCHANGED <<user, items, experienceCache, totalPrice, localStorage, cartRows,
                   bookings, bookingItems, runs, scope, isInWishlist, wishlists, providers>>

\* the providers page: no cart, no user, applications submitted one after the other
InitProvider ==
    /\ user = NoUser
    /\ items = <<>>
    /\ experienceCache = EmptyCache
    /\ totalPrice = 0
    /\ localStorage = [has |-> FALSE, cart |-> <<>>]
    /\ cartRows = <<>>
    /\ bookings = <<>>
    /\ bookingItems = <<>>
    /\ ops = <<>>
    /\ runs = <<>>
    /\ last = NoCall
    /\ faults = 0
    /\ scope = [calls |-> 1, runs |-> MaxRuns, history |-> TRUE]
    /\ isInWishlist = FALSE
    /\ wishlists = <<>>
    /\ providers = <<>>
    /\ experienceRows = <<>>

NextProvider ==
    \/ \E formData \in FormData : SubmitProviderApplication(formData)
    \/ \E i \in 1..Len(ops) : SubmitInsertProvider(i)
    \/ \E i \in 1..Len(ops) : SubmitInsertExperience(i)

SpecProvider == InitProvider /\ [][NextProvider]_vars

\* ---------------------------------------------------------------- properties: vocabulary
\* the lines of a list for experience x
LinesFor(its, x) == SelectSeq(its, LAMBDA it : it.experienceId = x)

\* the lines of a list for every experience but x
LinesBut(its, x) == SelectSeq(its, LAMBDA it : it.experienceId # x)

\* the call settled by addToCart(x) with every backend call succeeding
SettledAdd(c, x) == c.kind = "addToCart" /\ c.experienceId = x /\ c.result = "ok"

\* request k of call c
IsRequest(c, k, table, verb, ok) == c.requests[k] = Request(table, verb, ok)

HasRequest(c, table, verb, ok) == \E k \in 1..Len(c.requests) : IsRequest(c, k, table, verb, ok)

\* the calls of checkout in view: the one in flight, or the one that settled last
CheckoutCalls == {c \in {last} \cup {ops[i] : i \in 1..Len(ops)} : c.kind = "checkout"}

BothInsertsOk(c) ==
    /\ HasRequest(c, "bookings", "insert", TRUE)
    /\ HasRequest(c, "booking_items", "insert", TRUE)

\* the cart is as call c found it
CartAsAtCall(c) == items = c.items /\ UserRows(cartRows, c.user) = c.rowsAtCall

\* the sum over lines of cached price x quantity, a line not cached counting 0
SumOverLines(its, cache) ==
    SumSeq([i \in 1..Len(its) |->
        (IF its[i].experienceId \in DOMAIN cache THEN cache[its[i].experienceId].price ELSE 0)
            * its[i].quantity])

\* ---------------------------------------------------------------- C1
\* C1: when addToCart(x) settles right after an addToCart(x) that was called with no line
\* for x in items (all backend calls of both succeeding), items holds exactly one line for
\* x and its quantity is 2 -- for a guest and for a signed-in user.
C1_TwoAddsGiveQuantityTwo ==
    [][\A x \in ExpIds :
          (/\ SettledAdd(last, x)
           /\ LinesFor(last.items, x) = <<>>
           /\ last' # last
           /\ SettledAdd(last', x))
          => /\ Len(LinesFor(items', x)) = 1
             /\ LinesFor(items', x)[1].quantity = 2]_vars

\* ---------------------------------------------------------------- C2
\* C2: once a guest's removeFromCart(x) or clearCart() has settled, items holds no line for
\* x, and an addToCart(x) that the guest calls next leaves one line for x with quantity 1.
GuestRemoved(c, x) ==
    /\ c.user = NoUser
    /\ c.result = "ok"
    /\ \/ c.kind = "removeFromCart" /\ c.experienceId = x
       \/ c.kind = "clearCart"

C2_RemovedLineStaysRemoved ==
    [][\A x \in ExpIds :
          GuestRemoved(last, x)
          => /\ LinesFor(items, x) = <<>>
             /\ (last' # last /\ SettledAdd(last', x))
                => /\ Len(LinesFor(items', x)) = 1
                   /\ LinesFor(items', x)[1].quantity = 1]_vars

\* ---------------------------------------------------------------- C3
\* C3: for a guest, after every settled addToCart, removeFromCart, updateQuantity or
\* clearCart the cart stored under 'cart' in localStorage equals items.
CartOperations == {"addToCart", "removeFromCart", "updateQuantity", "clearCart"}

C3_GuestCartMirrored ==
    (user = NoUser /\ ops = <<>> /\ last.kind \in CartOperations)
    => StoredCart(localStorage) = items

\* ---------------------------------------------------------------- C4
\* C4: whenever checkout has returned true the cart is cleared: items is empty and the
\* user has no cart_items row.
C4_CheckoutTrueMeansCleared ==
    (ops = <<>> /\ last.kind = "checkout" /\ last.result = "true")
    => /\ items = <<>>
       /\ UserRows(cartRows, last.user) = <<>>

\* ---------------------------------------------------------------- C5
\* C5: a checkout issues the cart_items delete only after its bookings insert and its
\* booking_items insert have both succeeded, and until then the cart (items and the
\* user's remote rows) is as the call found it; a checkout one of whose inserts failed
\* has returned false with the cart unchanged.
DeleteOnlyAfterBothInserts(c) ==
    \A k \in 1..Len(c.requests) :
        (c.requests[k].table = "cart_items" /\ c.requests[k].verb = "delete")
        => \E i, j \in 1..Len(c.requests) :
              /\ i < j /\ j < k
              /\ IsRequest(c, i, "bookings", "insert", TRUE)
              /\ IsRequest(c, j, "booking_items", "insert", TRUE)

C5_ClearOnlyAfterBothInserts ==
    \A c \in CheckoutCalls :
        /\ DeleteOnlyAfterBothInserts(c)
        /\ (~BothInsertsOk(c) /\ (c = last => ops = <<>>)) => CartAsAtCall(c)
        /\ (c.pc = "done" /\ ~BothInsertsOk(c)) => c.result = "false"

C5_Witness ==
    /\ ops = <<>>
    /\ last.kind = "checkout"
    /\ last.items # <<>>
    /\ last.rowsAtCall # <<>>
    /\ HasRequest(last, "bookings", "insert", FALSE)

\* ---------------------------------------------------------------- C6
\* C6: a checkout called with items empty, or with no user signed in, has returned false,
\* has issued no remote request (so no insert) and has left the cart as it found it.
C6_EmptyCheckoutDoesNothing ==
    (last.kind = "checkout" /\ (last.items = <<>> \/ last.user = NoUser))
    => /\ last.result = "false"
       /\ last.requests = <<>>
       /\ ops = <<>> => CartAsAtCall(last)

C6_Witness ==
    /\ ops = <<>>
    /\ last.kind = "checkout"
    /\ last.user = UserId
    /\ last.items = <<>>
    /\ last.rowsAtCall # <<>>

\* ---------------------------------------------------------------- C7
\* C7: after updateQuantity(x, n) with n <= 0 has settled without a failed remote call,
\* items holds no line for x, the other lines are those of the call's items, and the call
\* issued no update.
C7_NonPositiveQuantityRemoves ==
    (/\ ops = <<>>
     /\ last.kind = "updateQuantity"
     /\ last.quantity <= 0
     /\ \A k \in 1..Len(last.requests) : last.requests[k].ok)
    => /\ LinesFor(items, last.experienceId) = <<>>
       /\ items = LinesBut(last.items, last.experienceId)
       /\ \A k \in 1..Len(last.requests) : last.requests[k].verb # "update"

C7_Witness ==
    /\ ops = <<>>
    /\ last.kind = "updateQuantity"
    /\ last.quantity = 0
    /\ last.user = UserId
    /\ HasRequest(last, "cart_items", "delete", TRUE)
    /\ LinesFor(last.items, last.experienceId) # <<>>
    /\ items # <<>>

\* ---------------------------------------------------------------- C8
\* C8: whenever no getExperienceById of the cart effect is in flight, totalPrice is the sum
\* over the lines of items of cached price x quantity.
C8_TotalIsSumOverLines ==
    runs = <<>> => totalPrice = SumOverLines(items, experienceCache)

\* ---------------------------------------------------------------- C9
\* C9: the booking_items rows of a booking sum (quantity x price_at_booking) to the
\* booking's total_amount, and a checkout whose two inserts succeeded has stored exactly
\* one booking_items row per line of its cart, with that line's experience and quantity.
ItemsOfBooking(id) == SelectSeq(bookingItems, LAMBDA r : r.booking_id = id)

C9_BookingItemsSumToTotal ==
    /\ \A b \in 1..Len(bookings) :
          LET rows == ItemsOfBooking(bookings[b].id) IN
          rows # <<>>
          => SumSeq([i \in 1..Len(rows) |-> rows[i].quantity * rows[i].price_at_booking])
             = bookings[b].total_amount
    /\ \A c \in CheckoutCalls :
          BothInsertsOk(c)
          => LET rows == ItemsOfBooking(c.bookingId) IN
             /\ Len(rows) = Len(c.items)
             /\ \A i \in 1..Len(rows) :
                   /\ rows[i].experience_id = c.items[i].experienceId
                   /\ rows[i].quantity = c.items[i].quantity

C9_Witness ==
    /\ last.kind = "checkout"
    /\ BothInsertsOk(last)
    /\ Len(last.items) = 2
    /\ \E i \in 1..2 : last.items[i].quantity = 2
    /\ bookings[1].total_amount = 45

\* ---------------------------------------------------------------- C10
\* C10: a checkout whose booking_items insert failed after its bookings insert succeeded
\* has returned false; its booking row is in the table with no booking_items row, and the
\* call issued nothing after the failed insert (no delete or update of the booking).
OrphanedCheckout(c) ==
    /\ c.kind = "checkout"
    /\ HasRequest(c, "bookings", "insert", TRUE)
    /\ HasRequest(c, "booking_items", "insert", FALSE)

C10_OrphanedBooking ==
    OrphanedCheckout(last)
    => /\ last.result = "false"
       /\ \E b \in 1..Len(bookings) : bookings[b].id = last.bookingId
       /\ ItemsOfBooking(last.bookingId) = <<>>
       /\ last.requests = <<Request("bookings", "insert", TRUE),
                            Request("booking_items", "insert", FALSE)>>

C10_Witness ==
    /\ OrphanedCheckout(last)
    /\ bookings # <<>>
    /\ bookings[1].total_amount > 0

\* ---------------------------------------------------------------- C11
\* C11: a submitProviderApplication issues the experiences insert only as its second
\* request, after its providers insert succeeded and only when the form has
\* experienceDetails, and the row it stores carries the id of the provider row just
\* inserted; the call returns success=true exactly when the providers insert succeeded and
\* the experiences insert was not needed or succeeded, and otherwise success=false after
\* exactly one error toast.
ProviderCalls ==
    {c \in {last} \cup {ops[i] : i \in 1..Len(ops)} : c.kind = "submitProviderApplication"}

ExperienceInsertInOrder(c) ==
    \A k \in 1..Len(c.requests) :
        c.requests[k].table = "experiences"
        => /\ k = 2
           /\ IsRequest(c, 1, "providers", "insert", TRUE)
           /\ c.formData.experienceDetails # NoDetails
           /\ \E j \in 1..Len(providers) : providers[j] = c.providerData
           /\ (c # last \/ ops = <<>>) => c.providerData = providers[Len(providers)]
           /\ c.requests[k].ok
              => \E j \in 1..Len(experienceRows) :
                    /\ experienceRows[j].provider_id = c.providerData.id
                    /\ experienceRows[j].title = c.formData.experienceDetails.name
                    /\ (c # last \/ ops = <<>>) => j = Len(experienceRows)

SubmitSucceeds(c) ==
    /\ HasRequest(c, "providers", "insert", TRUE)
    /\ \/ c.formData.experienceDetails = NoDetails
       \/ HasRequest(c, "experiences", "insert", TRUE)

C11_ProviderThenExperience ==
    \A c \in ProviderCalls :
        /\ ExperienceInsertInOrder(c)
        /\ c.pc = "done"
           => /\ c.result \in {"success:true", "success:false"}
              /\ c.result = "success:true" <=> SubmitSucceeds(c)
              /\ c.result = "success:false" => c.toasts = <<"error">>
              /\ c.formData.experienceDetails # NoDetails /\ c.requests[1].ok
                 => Len(c.requests) = 2

C11_Witness ==
    /\ last.kind = "submitProviderApplication"
    /\ last.requests = <<Request("providers", "insert", TRUE),
                         Request("experiences", "insert", FALSE)>>
    /\ last.result = "success:false"
    /\ Len(providers) = 2
    /\ Len(experienceRows) = 1

\* ---------------------------------------------------------------- C12
\* C12: the step in which a guest becomes a signed-in user changes neither cart_items nor
\* the cart of localStorage and starts nothing but a fetchCartItems; no step of a
\* fetchCartItems changes either of them, the fetch issues nothing but selects of
\* cart_items, and when it has succeeded items is exactly the remote rows of its user.
IsCartSelect(r) == r.table = "cart_items" /\ r.verb = "select"

\* the list holds one line per row, in the rows' order, with the row's experience, quantity
\* and date, and nothing else
ShowsExactly(its, rows) ==
    /\ Len(its) = Len(rows)
    /\ \A i \in 1..Len(rows) :
          /\ its[i].experienceId = rows[i].experience_id
          /\ its[i].quantity = rows[i].quantity
          /\ its[i].date = rows[i].date

FetchSteps(i) ==
    /\ ops[i].kind = "fetchCartItems"
    /\ i > Len(ops') \/ ops'[i] # ops[i]

C20_GuestSeesStoredCart ==
    user = NoUser => items = StoredCart(localStorage)

\* ---------------------------------------------------------------- C13
\* C13: after a signed-in user with no cart_items row for x has called addToCart(x) without
\* a date and the call has settled (no remote call having failed for another reason),
\* cart_items holds one row for (user, x), with quantity 1 and a date, and items holds one
\* line for x with quantity 1.
C13_AddWithoutDateStoresLine ==
    (/\ ops = <<>>
     /\ faults = 0
     /\ last.kind = "addToCart"
     /\ last.user = UserId
     /\ last.date = NoDate
     /\ LineRows(last.rowsAtCall, last.user, last.experienceId) = <<>>)
    => LET rows == LineRows(cartRows, last.user, last.experienceId)
           lines == LinesFor(items, last.experienceId)
       IN /\ Len(rows) = 1
          /\ rows[1].quantity = 1
          /\ rows[1].date # NoDate
          /\ Len(lines) = 1
          /\ lines[1].quantity = 1

\* ---------------------------------------------------------------- C14
\* C14: a checkout that has returned false has shown no toast.
C14_CheckoutFalseIsSilent ==
    (last.kind = "checkout" /\ last.result = "false") => last.toasts = <<>>

\* C14: as amended, a checkout that has returned false because an insert failed has shown
\* no toast, and one that has returned false because no user is signed in or the cart is
\* empty has shown exactly one error toast and issued no request.
C14_CheckoutFalseSilentAfterGuards ==
    (last.kind = "checkout" /\ last.result = "false")
    => IF last.user = NoUser \/ last.items = <<>>
       THEN last.toasts = <<"error">> /\ last.requests = <<>>
       ELSE /\ last.toasts = <<>>
            /\ ~last.requests[Len(last.requests)].ok

C14_Witness ==
    /\ last.kind = "checkout"
    /\ last.result = "false"
    /\ last.user = UserId
    /\ last.items # <<>>
    /\ last.requests = <<Request("bookings", "insert", FALSE)>>
    /\ last.toasts = <<>>

\* ---------------------------------------------------------------- C15
\* C15: for a signed-in user items never holds two lines with the same experienceId and
\* cart_items never holds two rows for the same (user, experience), also when calls of
\* addToCart overlap.
C15_NoDuplicateLines ==
    user # NoUser
    => \A x \in ExpIds :
          /\ Len(LinesFor(items, x)) <= 1
          /\ Len(LineRows(cartRows, user, x)) <= 1

\* ---------------------------------------------------------------- C16
\* C16: for a signed-in user, whenever no call and no fetch is in flight, items holds the
\* same lines (experience and quantity) as the user's cart_items rows, whatever the
\* interleaving of the calls before.
QuantitiesOf(lines) == [i \in 1..Len(lines) |-> lines[i].quantity]

C16_ItemsMirrorRemote ==
    (user # NoUser /\ ops = <<>>)
    => \A x \in ExpIds :
          QuantitiesOf(LinesFor(items, x)) = QuantitiesOf(LineRows(cartRows, user, x))

\* ---------------------------------------------------------------- C17
\* C17: after a removeFromCart, updateQuantity or clearCart of a signed-in user whose
\* remote delete or update reported an error has settled, items is what it was at the
\* call, the call has shown one error toast and no success toast, and it has returned
\* without throwing.
FailedWrite(c) ==
    \E k \in 1..Len(c.requests) :
        /\ c.requests[k].table = "cart_items"
        /\ c.requests[k].verb \in {"delete", "update"}
        /\ ~c.requests[k].ok

C17_FailedCallLeavesCart ==
    (/\ ops = <<>>
     /\ last.kind \in {"removeFromCart", "updateQuantity", "clearCart"}
     /\ last.user # NoUser
     /\ FailedWrite(last))
    => /\ items = last.items
       /\ last.toasts = <<"error">>
       /\ last.result = "ok"

C17_Witness ==
    /\ ops = <<>>
    /\ last.kind = "removeFromCart"
    /\ last.user = UserId
    /\ FailedWrite(last)
    /\ LinesFor(items, last.experienceId) # <<>>
    /\ Len(items) = 2

\* ---------------------------------------------------------------- C18
\* C18: in every reachable state every line of items has an integer quantity of at least 1,
\* whatever addToCart, removeFromCart, updateQuantity (also with 0 or a negative
\* argument) and clearCart a guest or a signed-in user has called.
C18_QuantityAtLeastOne ==
    \A i \in 1..Len(items) : items[i].quantity \in Nat \ {0}

C18_Witness ==
    /\ ops = <<>>
    /\ last.kind = "updateQuantity"
    /\ last.quantity < 0
    /\ LinesFor(last.items, last.experienceId) # <<>>
    /\ \E i \in 1..Len(items) : items[i].quantity = 2

\* ---------------------------------------------------------------- C19
\* C19: an experience id that has an entry in the cache has one in the next state, in
\* every step: the cache only grows, also when runs of the cache effect overlap.
C19_CacheOnlyGrows ==
    [][DOMAIN experienceCache \subseteq DOMAIN experienceCache']_vars

\* ---------------------------------------------------------------- C21
\* C21: whenever no wishlist check and no toggle is in flight, isInWishlist is true exactly
\* when a wishlists row exists for the current user and the card's experience (so it is
\* false with no signed-in user), whatever the order in which checks and toggles
\* resolved (no remote call having failed); and a toggle by a guest has issued no remote
\* call.
C21_FlagTracksWishlistRow ==
    /\ (ops = <<>> /\ faults = 0)
       => (isInWishlist
           <=> (user # NoUser /\ WishRows(wishlists, user, CardExperience) # <<>>))
    /\ (last.kind = "handleToggleWishlist" /\ last.user = NoUser) => last.requests = <<>>

====
